---- MODULE Spec2Model ----
(***************************************************************************)
(* Face analysis demo (wendelwrlddd/losckmachine).                         *)
(*                                                                         *)
(* Two revisions of the page script are modelled:                          *)
(*   - the snapshot revision, src/script.js: preview loop, capture with a  *)
(*     remote classifier, image upload, retry, heatmap toggle;             *)
(*   - the live revision, src/unnamed/part_000: the pixel based Metric     *)
(*     Engine (added further down).                                        *)
(*                                                                         *)
(* The browser runs one handler at a time; a handler runs until its next   *)
(* await, so every action below is one such synchronous stretch.           *)
(***************************************************************************)
EXTENDS Integers, Sequences, FiniteSets, TLC

(* ------------------------------ bounds --------------------------------- *)
\* Largest number of preview-loop chains (outstanding detection calls plus
\* queued animation-frame callbacks) the model follows.
MaxChains == 2

\* Largest distance searched by the integer square root.
MaxDist == 400
MaxRequests == 2

(* --------------------------- input domains ----------------------------- *)
Undefined == "undefined"
Null == "null"

\* alert messages are <<text, error message>>.
NoAlert == <<"", "">>
\* JavaScript's NaN: a number no computation of the model yields otherwise.
NaN == 0 - 1000000

\* Math.random() draws, in thousandths (0 <= r < 1).
Rand == {0, 500, 999}

\* The draws of one analyzeFaceFeatures call of script.js, in call order:
\* texture, oiliness, beard.
RandDraws == {<<999, 500, 999>>}

\* Landmark indices read by script.js.
NOSE == 1
LEFT_CHEEK == 234
RIGHT_CHEEK == 454
SnapCheekROI == <<123, 50, 205>>
SnapForeheadROI == <<10, 338, 297>>
SnapChinROI == <<152, 148, 176>>

\* Landmark indices read by part_000.
LEFT_EYE == 33
RIGHT_EYE == 263
ROI_leftCheek == <<123, 50, 205, 117, 118, 119, 120>>
ROI_foreheadPoly == <<10, 297, 332, 284, 251, 21>>
JawlineStrip == <<2, 164, 0, 11, 12, 13, 14, 15, 16, 17, 18>>

Range(seq) == {seq[i] : i \in 1..Len(seq)}

MeshIdx ==
    {NOSE, LEFT_CHEEK, RIGHT_CHEEK, LEFT_EYE, RIGHT_EYE}
        \cup Range(SnapCheekROI) \cup Range(SnapForeheadROI) \cup Range(SnapChinROI)
        \cup Range(ROI_leftCheek) \cup Range(ROI_foreheadPoly) \cup Range(JawlineStrip)

\* A corner of the box <<x0, y0, x1, y1>>: the first landmark of a region
\* sits on its top-left corner, the second on its top-right corner, the
\* others on its bottom-right corner.
Corner(box, i, first, second) ==
    IF i \in first THEN <<box[1], box[2]>>
    ELSE IF i \in second THEN <<box[3], box[2]>>
    ELSE <<box[3], box[4]>>

\* A landmark list: index -> <<x, y>>.  The nose is at (100, 100); the cheek
\* landmarks lie on the horizontal through it, dl to the left and dr to the
\* right; the eyes lie el and er away along 3-4-5 triangles (el, er are
\* multiples of 5); boxes = <<cheek box, forehead box, chin box>>.
MkMesh(dl, dr, el, er, boxes) ==
    [i \in MeshIdx |->
        CASE i = NOSE        -> <<100, 100>>
          [] i = LEFT_CHEEK  -> <<100 - dl, 100>>
          [] i = RIGHT_CHEEK -> <<100 + dr, 100>>
          [] i = LEFT_EYE    -> <<100 - 3 * (el \div 5), 100 - 4 * (el \div 5)>>
          [] i = RIGHT_EYE   -> <<100 + 3 * (er \div 5), 100 - 4 * (er \div 5)>>
          [] i \in Range(SnapCheekROI) \cup Range(ROI_leftCheek) ->
                 Corner(boxes[1], i, {123}, {50})
          [] i \in Range(SnapForeheadROI) \cup Range(ROI_foreheadPoly) ->
                 Corner(boxes[2], i, {10}, {338, 332})
          [] OTHER -> Corner(boxes[3], i, {152, 2}, {148, 164})]

\* Region boxes: one pixel of cheek and of chin; no cheek at all; boxes that
\* reach beyond the painted part of the canvas.
BoxesPlain == << <<1, 0, 2, 1>>, <<2, 0, 4, 1>>, <<0, 0, 1, 1>> >>
BoxesNoCheek == << <<0, 0, 0, 1>>, <<2, 0, 4, 2>>, <<0, 1, 2, 2>> >>
BoxesWide == << <<0, 0, 4, 2>>, <<3, 0, 6, 2>>, <<0 - 1, 0, 2, 1>> >>
\* A cheek box to the right of a 640 pixels wide canvas, a forehead box of
\* no width, a chin box above and to the left of the canvas.
BoxesOutside == << <<700, 10, 702, 12>>, <<2, 0, 2, 1>>, <<0 - 3, 0 - 3, 0 - 1, 0 - 1>> >>

\* A property a face object does not have is the empty list.
NoMesh == <<>>

\* Outcomes of one model.estimateFaces call: a rejection, or the list of
\* predictions (at most one face, maxFaces: 1 at script.js:212).
\* Faces as returned by the detector of createDetector (script.js:215) have
\* keypoints and no scaledMesh.  The page model is driven with one face.
PageFaces == {[keypoints |-> MkMesh(20, 100, 20, 25, BoxesPlain), scaledMesh |-> NoMesh]}

DetectResults ==
    {[k |-> "throw", faces |-> <<>>], [k |-> "ok", faces |-> <<>>]}
        \cup {[k |-> "ok", faces |-> <<f>>] : f \in PageFaces}

\* "nota" values of the remote classifier: absent, a number, or a string
\* (a sequence of characters).
Notes ==
    { [k |-> "undefined"],
      [k |-> "num", v |-> 0],
      [k |-> "num", v |-> 8],
      [k |-> "num", v |-> 11],
      [k |-> "str", v |-> <<"8", "/", "1", "0">>],
      [k |-> "str", v |-> <<"7">>],
      [k |-> "str", v |-> <<"a", "l", "t", "a">>] }

\* The responses the page model is driven with.
SimetriaNotes == {[k |-> "num", v |-> 11], [k |-> "str", v |-> <<"8", "/", "1", "0">>]}
PeleNotes == {[k |-> "str", v |-> <<"7">>]}

\* sugestoes_melhoria of the remote response: absent, an array, or not an array.
Suggestions ==
    { [k |-> "undefined"],
      [k |-> "array", v |-> <<>>],
      [k |-> "array", v |-> <<"dica 1", "dica 2">>],
      [k |-> "other"] }

\* The responses the page model is driven with.
PageSuggestions == {[k |-> "array", v |-> <<"dica 1", "dica 2">>]}

RemoteData == [simetria : SimetriaNotes, qualidade_pele : PeleNotes, sugestoes_melhoria : PageSuggestions]

\* No response has been mapped yet.
NoRemote ==
    [simetria |-> [k |-> "undefined"], qualidade_pele |-> [k |-> "undefined"],
     sugestoes_melhoria |-> [k |-> "undefined"]]

FetchFailures == {"network", "status", "parse"}

Fields == {"symmetry", "texture", "oiliness", "beardDensity", "insight"}

(* ------------------------------- state --------------------------------- *)
VARIABLES
    model,            \* script.js:14   "null" or "loaded"
    isAnalysing,      \* script.js:16
    animationId,      \* script.js:17   "null", or whether the callback it names is still queued
    rafStale,         \* queued animation-frame callbacks no longer named by animationId
    loopDet,          \* estimateFaces calls issued by previewLoop and not yet settled
    analysisState,    \* script.js:18
    isHeatmapVisible, \* script.js:467
    ui,               \* the DOM elements of script.js:21-33 and the loading overlay
    shown,            \* what updateUI last wrote to the bars and the insight list
    canvas,           \* the display canvas: base image and overlays drawn since the last clear
    offCanvas,        \* the offscreen canvas
    srcObject,        \* ui.video.srcObject
    loadPc,           \* loadModels started by init
    startPc,          \* startExperience
    capPc,            \* captureSnapshot
    upPc,             \* handleFileUpload
    lastStep,         \* the handler stretch that ran last, when it starts a loop iteration or ends a pass
    origin,           \* history: who wrote each field of analysisState last
    before,           \* history: analysisState when the pass in progress began
    engineIn,         \* the face and the frame handed to the Metric Engine
    engineOut,        \* what analyzeFaceFeatures produced, for two invocations A and B
    metricIn,         \* two pixel blocks handed to the texture and oiliness metrics
    metricOut,        \* the texture and oiliness scores computed for each of them
    remote,           \* history: the remote response captureSnapshot mapped last
    requests,         \* the requests of the server of part_001, by connection
    noteIn,           \* the two notes of a remote response handed to parseScore
    noteOut           \* the scores parseScore returned for them

vars == <<model, isAnalysing, animationId, rafStale, loopDet, analysisState,
          isHeatmapVisible, ui, shown, canvas, offCanvas, srcObject,
          loadPc, startPc, capPc, upPc, lastStep, origin, before,
          engineIn, engineOut, metricIn, metricOut, remote, requests,
          noteIn, noteOut>>

engineVars == <<engineIn, engineOut>>

metricVars == <<metricIn, metricOut>>

serverVars == <<requests>>

scoreVars == <<noteIn, noteOut>>

pageVars == <<model, isAnalysing, animationId, rafStale, loopDet, analysisState,
              isHeatmapVisible, ui, shown, canvas, offCanvas, srcObject,
              loadPc, startPc, capPc, upPc, lastStep, origin, before, remote>>

\* The part of the state a synchronous stretch of code reads and writes.
\* ui.alert is the alert raised by the stretch that ran last; it is
\* dismissed before anything else runs.
Cur ==
    [model |-> model, isAnalysing |-> isAnalysing, animationId |-> animationId,
     rafStale |-> rafStale, loopDet |-> loopDet, analysisState |-> analysisState,
     isHeatmapVisible |-> isHeatmapVisible,
     ui |-> [ui EXCEPT !.alert = NoAlert], shown |-> shown,
     canvas |-> canvas, offCanvas |-> offCanvas, srcObject |-> srcObject,
     origin |-> origin, remote |-> remote]

Commit(s) ==
    /\ model' = s.model
    /\ isAnalysing' = s.isAnalysing
    /\ animationId' = s.animationId
    /\ rafStale' = s.rafStale
    /\ loopDet' = s.loopDet
    /\ analysisState' = s.analysisState
    /\ isHeatmapVisible' = s.isHeatmapVisible
    /\ ui' = s.ui
    /\ shown' = s.shown
    /\ canvas' = s.canvas
    /\ offCanvas' = s.offCanvas
    /\ srcObject' = s.srcObject
    /\ origin' = s.origin
    /\ remote' = s.remote

InitAnalysisState ==
    [symmetry |-> 0, texture |-> 0, oiliness |-> 0, beardDensity |-> 0, insight |-> Undefined]

InitUi ==
    [introHidden |-> FALSE, analysisHidden |-> TRUE, captureHidden |-> FALSE,
     retryHidden |-> TRUE, toggleHidden |-> TRUE, sidebarActive |-> FALSE,
     videoShown |-> TRUE, statusText |-> "", loading |-> TRUE, alert |-> NoAlert,
     startDisabled |-> TRUE,
     toggleLabel |-> "Ocultar Heatmap"]

\* "init": the value of script.js:18; "cap" / "up": written by the capture /
\* upload pass in progress or the last one; "old": written by a pass that had
\* finished when the last pass began.
InitOrigin == [f \in Fields |-> "init"]

\* A pass begins: what passes that have finished wrote is old; what a pass
\* still in progress (busy: "cap", "up" or "none") wrote keeps its mark.
Age(org, busy) ==
    [f \in Fields |-> IF org[f] \in {"init", busy} THEN org[f] ELSE "old"]

InitShown ==
    [written |-> FALSE, symmetry |-> 0, texture |-> 0, oiliness |-> 0, beard |-> 0,
     insight |-> <<>>]

InitCanvas == [base |-> "blank", overlays |-> <<>>]

\* The page after window.onload ran init(): loadModels is awaiting the detector.
InitSnap ==
    /\ model = Null
    /\ isAnalysing = FALSE
    /\ animationId = Null
    /\ rafStale = 0
    /\ loopDet = 0
    /\ analysisState = InitAnalysisState
    /\ isHeatmapVisible = TRUE
    /\ ui = InitUi
    /\ shown = InitShown
    /\ canvas = InitCanvas
    /\ offCanvas = "blank"
    /\ srcObject = Null
    /\ loadPc = "pending"
    /\ startPc = "idle"
    /\ capPc = "idle"
    /\ upPc = "idle"
    /\ lastStep = "init"
    /\ origin = InitOrigin
    /\ before = [cap |-> InitAnalysisState, up |-> InitAnalysisState]
    /\ remote = NoRemote


(* ------------------------- arithmetic helpers -------------------------- *)
Min(a, b) == IF a < b THEN a ELSE b
Max(a, b) == IF a > b THEN a ELSE b

\* The exact square root of a perfect square (the model's landmarks are placed
\* so that every distance the code takes is integral).
Sqrt(n) == CHOOSE d \in 0..MaxDist : d * d = n

\* RoundPercent with the ratio taken the other way round.
RoundPercentInverted(a, b) == IF a = 0 THEN NaN ELSE (200 * b + a) \div (2 * a)

\* Math.round(100 * a / b) for a >= 0, b > 0 (round half up); NaN for 0/0.
RoundPercent(a, b) == IF b = 0 THEN NaN ELSE (200 * a + b) \div (2 * b)

(* ------------------------------ canvases ------------------------------- *)
\* A canvas is a list of rows of RGBA pixels; what lies outside is
\* transparent black, as getImageData reports it.
Transparent == <<0, 0, 0, 0>>

PixelAt(ctx, x, y) ==
    IF y >= 0 /\ y < Len(ctx) /\ x >= 0 /\ x < Len(ctx[y + 1])
    THEN ctx[y + 1][x + 1]
    ELSE Transparent

\* ctx.getImageData(x, y, w, h): the pixels of the rectangle, row by row.
getImageData(ctx, x, y, w, h) ==
    [x |-> x, y |-> y, w |-> w, h |-> h,
     data |-> [k \in 1..(w * h) |-> PixelAt(ctx, x + ((k - 1) % w), y + ((k - 1) \div w))]]

\* The null a region sampler returns: an ImageData of no pixels.
NullData == [x |-> 0, y |-> 0, w |-> 0, h |-> 0, data |-> <<>>]

\* The frames the model paints: a video frame and an uploaded picture.
VideoFrame ==
    << <<<<50, 50, 50, 255>>, <<90, 90, 90, 255>>, <<200, 200, 200, 255>>, <<200, 190, 181, 255>>>>,
       <<<<90, 90, 90, 255>>, <<50, 50, 50, 255>>, <<120, 90, 60, 255>>, <<255, 255, 255, 255>>>> >>

UploadFrame ==
    << <<<<90, 90, 90, 255>>, <<90, 90, 90, 255>>, <<10, 20, 30, 255>>, <<191, 191, 191, 255>>>>,
       <<<<50, 50, 50, 255>>, <<50, 50, 50, 255>>, <<190, 190, 190, 255>>, <<0, 0, 0, 255>>>> >>

BlankFrame == <<>>

\* The pixels of a canvas of the page model, by what was last painted on it.
Pixels(painted) ==
    CASE painted = "freeze" -> VideoFrame
      [] painted = "upload" -> UploadFrame
      [] OTHER -> BlankFrame

(* ------------------- script.js: the scoring helpers -------------------- *)
\* Math.hypot(p[0]-q[0], p[1]-q[1])
hypot(p, q) == Sqrt((p[1] - q[1]) * (p[1] - q[1]) + (p[2] - q[2]) * (p[2] - q[2]))

\* The minimum / maximum of landmark coordinate c over the indices, folded
\* from the code's starting values 10000 and 0.
RECURSIVE FoldMin(_, _, _, _)
FoldMin(landmarks, indices, c, acc) ==
    IF indices = <<>> THEN acc
    ELSE FoldMin(landmarks, Tail(indices), c,
                 IF landmarks[Head(indices)][c] < acc THEN landmarks[Head(indices)][c] ELSE acc)

RECURSIVE FoldMax(_, _, _, _)
FoldMax(landmarks, indices, c, acc) ==
    IF indices = <<>> THEN acc
    ELSE FoldMax(landmarks, Tail(indices), c,
                 IF landmarks[Head(indices)][c] > acc THEN landmarks[Head(indices)][c] ELSE acc)

\* getRegionPixels of script.js: the pixels of the landmarks' bounding box,
\* or null.
getRegionPixelsSnap(ctx, landmarks, indices) ==
    LET minX == FoldMin(landmarks, indices, 1, 10000)
        maxX == FoldMax(landmarks, indices, 1, 0)
        minY == FoldMin(landmarks, indices, 2, 10000)
        maxY == FoldMax(landmarks, indices, 2, 0)
        w == maxX - minX
        h == maxY - minY
    IN IF w < 1 \/ h < 1 THEN NullData ELSE getImageData(ctx, minX, minY, w, h)

\* Math.floor(Math.random() * n) for a draw r given in thousandths.
FloorRandom(r, n) == (r * n) \div 1000

\* The three metric functions of script.js; r is the Math.random() draw.
calculateTextureMetricSnap(img, r) == IF img = NullData THEN 20 ELSE FloorRandom(r, 40) + 10
calculateOilinessMetricSnap(img, r) == FloorRandom(r, 50) + 10
calculateBeardMetricSnap(chin, cheek, r) == FloorRandom(r, 60)

\* analysisState.texture and analysisState.oiliness as analyzeFaceFeatures of
\* script.js computes them from a region (script.js:453-459).
TextureScoreSnap(cheekPixels, r) ==
    Min(100, (calculateTextureMetricSnap(cheekPixels, r) * 5) \div 2)

OilinessScoreSnap(foreheadPixels, r) ==
    Min(100, calculateOilinessMetricSnap(foreheadPixels, r))

\* analyzeFaceFeatures of script.js: the face with scaledMesh patched, and the
\* four scores it writes.  rnd = <<texture draw, oiliness draw, beard draw>>.
analyzeFaceFeaturesSnap(face, ctxSource, rnd) ==
    LET landmarks == IF face.keypoints # NoMesh THEN face.keypoints ELSE face.scaledMesh
        nose == landmarks[NOSE]
        leftCheek == landmarks[LEFT_CHEEK]
        rightCheek == landmarks[RIGHT_CHEEK]
        dL == hypot(nose, leftCheek)
        dR == hypot(nose, rightCheek)
        cheekPixels == getRegionPixelsSnap(ctxSource, landmarks, SnapCheekROI)
        foreheadPixels == getRegionPixelsSnap(ctxSource, landmarks, SnapForeheadROI)
        chinPixels == getRegionPixelsSnap(ctxSource, landmarks, SnapChinROI)
    IN [face |-> [face EXCEPT !.scaledMesh = landmarks],
        symmetry |-> RoundPercent(Min(dL, dR), Max(dL, dR)),
        texture |-> TextureScoreSnap(cheekPixels, rnd[1]),
        oiliness |-> OilinessScoreSnap(foreheadPixels, rnd[2]),
        beardDensity |-> calculateBeardMetricSnap(chinPixels, cheekPixels, rnd[3]),
        chinData |-> chinPixels,
        cheekData |-> cheekPixels,
        foreheadData |-> foreheadPixels]

(* --------------------- script.js: parseScore --------------------------- *)
Digits == <<"0", "1", "2", "3", "4", "5", "6", "7", "8", "9">>
IsDigit(c) == \E i \in 1..10 : Digits[i] = c
DigitVal(c) == (CHOOSE i \in 1..10 : Digits[i] = c) - 1

\* val.toString().split('/')[0]
RECURSIVE BeforeSlash(_)
BeforeSlash(s) ==
    IF s = <<>> \/ Head(s) = "/" THEN <<>> ELSE <<Head(s)>> \o BeforeSlash(Tail(s))

\* The value of the longest prefix of digits, given the value read so far.
RECURSIVE DigitsValue(_, _)
DigitsValue(s, acc) ==
    IF s = <<>> \/ ~IsDigit(Head(s)) THEN acc
    ELSE DigitsValue(Tail(s), 10 * acc + DigitVal(Head(s)))

\* parseFloat on the strings of the model (unsigned, no fraction): the number
\* its leading digits spell, NaN when it does not start with a digit.
parseFloat(s) == IF s = <<>> \/ ~IsDigit(Head(s)) THEN NaN ELSE DigitsValue(s, 0)

\* !val of JavaScript for the note values of the model.
Falsy(val) ==
    \/ val.k = "undefined"
    \/ val.k = "num" /\ val.v = 0
    \/ val.k = "str" /\ val.v = <<>>

parseScore(val) ==
    IF Falsy(val) THEN 50
    ELSE IF val.k = "num" THEN val.v * 10
    ELSE LET num == parseFloat(BeforeSlash(val.v))
         IN IF num = NaN THEN 50 ELSE num * 10

(* ------------- script.js: synchronous pieces of the handlers ----------- *)
setLoading(s, isLoading) == [s EXCEPT !.ui.loading = isLoading]

alert(s, msg) == [s EXCEPT !.ui.alert = msg]

\* Queue a callback and store its id in animationId; a callback the old id
\* named stays queued.
requestAnimationFrame(s) ==
    [s EXCEPT !.rafStale = IF s.animationId = "pending" THEN @ + 1 ELSE @,
              !.animationId = "pending"]

\* cancelAnimationFrame(animationId)
cancelAnimationFrame(s) ==
    [s EXCEPT !.animationId = IF @ = "pending" THEN "spent" ELSE @]

\* ctx.clearRect over the whole display canvas
clearRect(s) == [s EXCEPT !.canvas = [base |-> "blank", overlays |-> <<>>]]

\* previewLoop without the check of isAnalysing at its head.
previewLoopUnguarded(s) ==
    IF s.model # Null
    THEN [clearRect(s) EXCEPT !.loopDet = @ + 1]
    ELSE requestAnimationFrame(clearRect(s))

\* previewLoop up to its await (script.js:271-284), or to its end when there
\* is no model (script.js:295).
previewLoop(s) ==
    IF ~s.isAnalysing THEN s
    ELSE IF s.model # Null
         THEN [clearRect(s) EXCEPT !.loopDet = @ + 1]
         ELSE requestAnimationFrame(clearRect(s))

\* drawMesh reads face.scaledMesh; on a face without it the forEach throws.
drawMeshThrows(face) == face.scaledMesh = NoMesh

drawMesh(s, face) == [s EXCEPT !.canvas.overlays = Append(@, "mesh")]

\* previewLoop after its await (script.js:286-295).
previewLoopResume(s, predictions) ==
    LET drawn == IF predictions.k = "ok" /\ Len(predictions.faces) > 0
                    /\ ~drawMeshThrows(predictions.faces[1])
                 THEN drawMesh(s, predictions.faces[1])
                 ELSE s
    IN requestAnimationFrame([drawn EXCEPT !.loopDet = @ - 1])

resetExperience(s) ==
    previewLoop([s EXCEPT !.isAnalysing = TRUE,
                          !.ui.captureHidden = FALSE,
                          !.ui.retryHidden = TRUE,
                          !.ui.toggleHidden = TRUE,
                          !.ui.statusText = "Posicione seu rosto",
                          !.ui.sidebarActive = FALSE,
                          !.ui.videoShown = TRUE])

\* An assignment analysisState.f = v made by pass who.
Assign(s, who, f, v) ==
    [s EXCEPT !.analysisState[f] = v, !.origin[f] = who]

\* The writes of analyzeFaceFeatures (script.js:449-463).
analyzeFaceFeaturesWrite(s, who, r) ==
    Assign(Assign(Assign(Assign(s, who, "symmetry", r.symmetry),
                         who, "texture", r.texture),
                  who, "oiliness", r.oiliness),
           who, "beardDensity", r.beardDensity)

Truthy(str) == str # Undefined /\ str # ""

updateUI(s) ==
    [s EXCEPT !.shown =
        [written |-> TRUE,
         symmetry |-> s.analysisState.symmetry,
         texture |-> s.analysisState.texture,
         oiliness |-> s.analysisState.oiliness,
         beard |-> s.analysisState.beardDensity,
         insight |-> IF Truthy(s.analysisState.insight)
                     THEN <<"IA", s.analysisState.insight>>
                     ELSE <<"Textura", IF s.analysisState.texture > 50 THEN "Alta" ELSE "Suave">>]]

\* drawHeatmap of script.js: two red blobs on the cheek landmarks.
drawHeatmapSnap(s, face) == [s EXCEPT !.canvas.overlays = Append(@, "heatmap")]

\* ctx.drawImage(ui.video, ...) paints the whole canvas when the video has a
\* frame and nothing otherwise.
VideoHasFrame(s, sPc) == s.srcObject = "stream" /\ sPc = "done"

\* captureSnapshot up to its first await (script.js:300-327).
captureSnapshotBegin(s, sPc) ==
    LET a == cancelAnimationFrame([s EXCEPT !.isAnalysing = FALSE])
        b == setLoading([a EXCEPT !.ui.statusText = "Processando..."], TRUE)
        c == [b EXCEPT !.ui.captureHidden = TRUE]
    IN IF VideoHasFrame(s, sPc)
       THEN [c EXCEPT !.canvas = [base |-> "freeze", overlays |-> <<>>],
                      !.offCanvas = "freeze"]
       ELSE c

\* captureSnapshotCatch without the call of resetExperience.
captureSnapshotCatchNoReset(s, e) ==
    setLoading(alert(s, <<"Erro na analise (API)", e>>), FALSE)

\* The catch and finally blocks of captureSnapshot (script.js:389-395).
captureSnapshotCatch(s, e) ==
    setLoading(resetExperience(alert(s, <<"Erro na analise (API)", e>>)), FALSE)

\* The mapping of the remote response (script.js:355-368).
captureSnapshotMap(s, data) ==
    LET points == IF data.sugestoes_melhoria.k = "undefined"
                  THEN [k |-> "array", v |-> <<>>]
                  ELSE data.sugestoes_melhoria
        insight == IF points.k = "array"
                   THEN (IF Len(points.v) > 0 THEN points.v[1] ELSE Undefined)
                   ELSE "Melhore sua rotina de cuidados."
    IN Assign(Assign(Assign(Assign(Assign([s EXCEPT !.remote = data],
           "cap", "symmetry", parseScore(data.simetria)),
           "cap", "texture", parseScore(data.qualidade_pele)),
           "cap", "oiliness", 50),
           "cap", "beardDensity", 50),
           "cap", "insight", insight)

\* captureSnapshot after the detection for the overlay (script.js:372-387, 394).
captureSnapshotFace(s, face, rnd) ==
    LET r == analyzeFaceFeaturesSnap(face, Pixels(s.offCanvas), rnd)
        a == updateUI(analyzeFaceFeaturesWrite(s, "cap", r))
        b == drawHeatmapSnap(a, r.face)
    IN setLoading([b EXCEPT !.ui.retryHidden = FALSE,
                            !.ui.toggleHidden = FALSE,
                            !.ui.sidebarActive = TRUE,
                            !.ui.statusText = "Analise Concluida"], FALSE)

captureSnapshotNoFace(s) ==
    setLoading(updateUI(alert(s, <<"Rosto nao detectado para overlay", "">>)), FALSE)

\* The catch and finally blocks of handleFileUpload (script.js:156-162).
handleFileUploadCatch(s, e) ==
    setLoading(resetExperience(alert(s, <<"Erro ao ler imagem", e>>)), FALSE)

\* handleFileUploadImage without the repaint of the display canvas.
handleFileUploadImageNoRepaint(s) ==
    setLoading([s EXCEPT !.srcObject = Null,
                         !.offCanvas = "upload",
                         !.ui.videoShown = FALSE], TRUE)

\* handleFileUpload between loadImage and the detection (script.js:119-153).
handleFileUploadImage(s) ==
    setLoading([s EXCEPT !.srcObject = Null,
                         !.canvas = [base |-> "upload", overlays |-> <<>>],
                         !.offCanvas = "upload",
                         !.ui.videoShown = FALSE], TRUE)

\* analyzeStaticImage after the detection (script.js:184-200), then the
\* finally block of handleFileUpload.
analyzeStaticImageFace(s, face, rnd) ==
    LET r == analyzeFaceFeaturesSnap(face, Pixels(s.offCanvas), rnd)
        a == updateUI(analyzeFaceFeaturesWrite(s, "up", r))
        b == drawHeatmapSnap(a, r.face)
    IN setLoading([b EXCEPT !.ui.captureHidden = TRUE,
                            !.ui.retryHidden = FALSE,
                            !.ui.toggleHidden = FALSE,
                            !.ui.sidebarActive = TRUE,
                            !.ui.statusText = "Analise de Imagem Concluida"], FALSE)

analyzeStaticImageNoFace(s) ==
    setLoading(resetExperience(alert(s, <<"Nenhum rosto detectado", "">>)), FALSE)

toggleHeatmapLayer(s) ==
    [s EXCEPT !.isHeatmapVisible = ~@,
              !.canvas = [base |-> s.offCanvas, overlays |-> <<>>],
              !.ui.toggleLabel = IF ~s.isHeatmapVisible THEN "Ocultar Heatmap" ELSE "Ver Heatmap"]

\* The four scores of analysisState as script.js:18 and part_000:39-45 set them.
InitScores == [symmetry |-> 0, texture |-> 0, oiliness |-> 0, beardDensity |-> 0]

\* An invocation slot of the Metric Engine before analyzeFaceFeatures ran.
EngineIdle(prior) ==
    [by |-> "none", scores |-> prior, beardScore |-> <<0, 1>>,
     chinData |-> NullData, cheekData |-> NullData, foreheadData |-> NullData,
     blobs |-> <<>>]

\* A slot of the metric functions before they ran.
MetricIdle == [by |-> "none", texture |-> 0, oiliness |-> 0]

\* No block is handed to the metric functions on their own.
InitMetricIdle ==
    /\ metricIn = <<NullData, NullData>>
    /\ metricOut = <<MetricIdle, MetricIdle>>

\* The connections the server of part_001 is driven with.
Connections == 1..MaxRequests

\* A connection on which no request has arrived.
RequestIdle ==
    [pc |-> "idle", form |-> [multipart |-> FALSE, files |-> <<>>],
     reply |-> [k |-> "none"], calls |-> 0, sent |-> <<>>]

\* No request has reached the server.
InitServerIdle == requests = [c \in Connections |-> RequestIdle]

\* No note is handed to parseScore on its own.
NoScore == [k |-> "none"]

InitScoreIdle ==
    /\ noteIn = <<[note |-> [k |-> "undefined"], kind |-> "missing", value |-> 0],
                  [note |-> [k |-> "undefined"], kind |-> "missing", value |-> 0]>>
    /\ noteOut = <<NoScore, NoScore>>

(* ------------------------------ actions -------------------------------- *)
\* Preview-loop chains alive in s: detection calls previewLoop awaits, plus
\* queued animation-frame callbacks.
Chains(s) == s.loopDet + s.rafStale + (IF s.animationId = "pending" THEN 1 ELSE 0)

\* One synchronous stretch: the handler's result becomes the next state.
Run(s, step) ==
    /\ Chains(s) <= MaxChains
    /\ Commit(s)
    /\ lastStep' = step
    /\ UNCHANGED <<engineVars, metricVars, serverVars, scoreVars>>

\* The loading overlay covers the page (script.js:89), so no control is
\* clicked while it is shown.
Clickable == ~ui.loading

\* loadModels started by init settles (script.js:215-227).
LoadModelsOk ==
    /\ loadPc = "pending"
    /\ Run(setLoading([Cur EXCEPT !.model = "loaded", !.ui.startDisabled = FALSE], FALSE),
           "other")
    /\ loadPc' = "done"
    /\ UNCHANGED <<startPc, capPc, upPc, before>>

LoadModelsFail ==
    /\ loadPc = "pending"
    /\ Run(setLoading([alert(Cur, <<"Erro ao carregar IA", "load">>) EXCEPT
                          !.ui.statusText = "Erro no carregamento"], FALSE),
           "other")
    /\ loadPc' = "done"
    /\ UNCHANGED <<startPc, capPc, upPc, before>>

\* startExperience up to getUserMedia (script.js:233-238).  The start
\* button is enabled by loadModels (script.js:219).
StartClick ==
    /\ Clickable
    /\ ~ui.introHidden
    /\ ~ui.startDisabled
    /\ startPc = "idle"
    /\ Run([Cur EXCEPT !.ui.introHidden = TRUE, !.ui.analysisHidden = FALSE], "other")
    /\ startPc' = "gum"
    /\ UNCHANGED <<loadPc, capPc, upPc, before>>

\* getUserMedia resolves (script.js:246-249).
CameraGranted ==
    /\ startPc = "gum"
    /\ Run([Cur EXCEPT !.srcObject = "stream"], "other")
    /\ startPc' = "meta"
    /\ UNCHANGED <<loadPc, capPc, upPc, before>>

\* getUserMedia rejects: alert, then location.reload() (script.js:263-267).
CameraDenied ==
    /\ startPc = "gum"
    /\ Commit([model |-> Null, isAnalysing |-> FALSE, animationId |-> Null,
               rafStale |-> 0, loopDet |-> 0, analysisState |-> InitAnalysisState,
               isHeatmapVisible |-> TRUE, ui |-> InitUi, shown |-> InitShown,
               canvas |-> InitCanvas, offCanvas |-> "blank", srcObject |-> Null,
               origin |-> InitOrigin, remote |-> NoRemote])
    /\ loadPc' = "pending"
    /\ startPc' = "idle"
    /\ capPc' = "idle"
    /\ upPc' = "idle"
    /\ lastStep' = "init"
    /\ before' = [cap |-> InitAnalysisState, up |-> InitAnalysisState]
    /\ UNCHANGED <<engineVars, metricVars, serverVars, scoreVars>>

\* ui.video.onloadedmetadata (script.js:249-261).
LoadedMetadata ==
    /\ startPc = "meta"
    /\ srcObject = "stream"
    /\ Run(previewLoop([Cur EXCEPT !.ui.statusText = "Posicione seu rosto",
                                   !.isAnalysing = TRUE]), "other")
    /\ startPc' = "done"
    /\ UNCHANGED <<loadPc, capPc, upPc, before>>

\* A detection call of previewLoop settles (script.js:282-295).
LoopDetectionDone ==
    /\ loopDet > 0
    /\ \E predictions \in DetectResults :
          Run(previewLoopResume(Cur, predictions), "other")
    /\ UNCHANGED <<loadPc, startPc, capPc, upPc, before>>

\* The browser runs a queued animation-frame callback: previewLoop.
AnimationFrame ==
    /\ \/ /\ animationId = "pending"
          /\ Run(previewLoop([Cur EXCEPT !.animationId = "spent"]), "loopEnter")
       \/ /\ rafStale > 0
          /\ Run(previewLoop([Cur EXCEPT !.rafStale = @ - 1]), "loopEnter")
    /\ UNCHANGED <<loadPc, startPc, capPc, upPc, before>>

\* captureSnapshot up to its first await.
CaptureClick ==
    /\ Clickable
    /\ ~ui.analysisHidden
    /\ ~ui.captureHidden
    /\ capPc = "idle"
    /\ Run([captureSnapshotBegin(Cur, startPc) EXCEPT !.origin = Age(@, IF upPc # "idle" THEN "up" ELSE "none")], "other")
    /\ capPc' = "fetch"
    /\ before' = [before EXCEPT !.cap = analysisState]
    /\ UNCHANGED <<loadPc, startPc, upPc>>

\* The remote call fails: fetch rejects, the status is not OK, or the body
\* does not parse (script.js:333-342, 389-395).
CaptureFetchFail ==
    /\ capPc = "fetch"
    /\ \E why \in FetchFailures :
          Run(captureSnapshotCatch(Cur, why), "captureFetchFail")
    /\ capPc' = "idle"
    /\ before' = [before EXCEPT !.cap = InitAnalysisState]
    /\ UNCHANGED <<loadPc, startPc, upPc>>

\* The remote call succeeds: the response is mapped and the detection for
\* the overlay is called on ui.video; with no model that call throws at once.
\* capPc tells whether the video had a frame to detect a face in.
CaptureFetchOk ==
    /\ capPc = "fetch"
    /\ \E data \in RemoteData :
          LET mapped == captureSnapshotMap(Cur, data)
          IN IF model = Null
             THEN /\ Run(captureSnapshotCatch(mapped, "TypeError"), "captureDetectThrow")
                  /\ capPc' = "idle"
                  /\ before' = [before EXCEPT !.cap = InitAnalysisState]
             ELSE /\ Run(mapped, "other")
                  /\ capPc' = IF VideoHasFrame(Cur, startPc) THEN "detect" ELSE "detectNoFrame"
                  /\ UNCHANGED before
    /\ UNCHANGED <<loadPc, startPc, upPc>>

\* The detection call of captureSnapshot settles; a face is found only in
\* a video that had a frame.
CaptureDetectionDone ==
    /\ capPc \in {"detect", "detectNoFrame"}
    /\ \E predictions \in DetectResults :
          \/ /\ predictions.k = "ok"
             /\ Len(predictions.faces) > 0
             /\ capPc = "detect"
             /\ \E rnd \in RandDraws :
                   Run(captureSnapshotFace(Cur, predictions.faces[1], rnd), "captureDone")
          \/ /\ predictions.k = "ok"
             /\ Len(predictions.faces) = 0
             /\ Run(captureSnapshotNoFace(Cur), "captureNoFace")
          \/ /\ predictions.k = "throw"
             /\ Run(captureSnapshotCatch(Cur, "detect"), "captureDetectThrow")
    /\ capPc' = "idle"
    /\ before' = [before EXCEPT !.cap = InitAnalysisState]
    /\ UNCHANGED <<loadPc, startPc, upPc>>

RetryClick ==
    /\ Clickable
    /\ ~ui.analysisHidden
    /\ ~ui.retryHidden
    /\ Run(resetExperience(Cur), "other")
    /\ UNCHANGED <<loadPc, startPc, capPc, upPc, before>>

ToggleClick ==
    /\ Clickable
    /\ ~ui.analysisHidden
    /\ ~ui.toggleHidden
    /\ Run(toggleHeatmapLayer(Cur), "other")
    /\ UNCHANGED <<loadPc, startPc, capPc, upPc, before>>

\* handleFileUpload with a file chosen, up to loadImage (script.js:105-116).
\* The handler stops a running camera (script.js:119), so a file can be
\* chosen on either screen.
UploadChange ==
    /\ Clickable
    /\ upPc = "idle"
    /\ Run(setLoading([Cur EXCEPT !.ui.introHidden = TRUE,
                                  !.ui.analysisHidden = FALSE,
                                  !.origin = Age(@, IF capPc # "idle" THEN "cap" ELSE "none")], TRUE), "other")
    /\ upPc' = "image"
    /\ before' = [before EXCEPT !.up = analysisState]
    /\ UNCHANGED <<loadPc, startPc, capPc>>

\* loadImage rejects (script.js:170, 156-162).
UploadImageFail ==
    /\ upPc = "image"
    /\ Run(handleFileUploadCatch(Cur, "image"), "uploadImageFail")
    /\ upPc' = "idle"
    /\ before' = [before EXCEPT !.up = InitAnalysisState]
    /\ UNCHANGED <<loadPc, startPc, capPc>>

\* loadImage resolves; analyzeStaticImage calls the detector, after loading
\* the model when there is none (script.js:177).
UploadImageOk ==
    /\ upPc = "image"
    /\ Run(handleFileUploadImage(Cur), "other")
    /\ upPc' = IF model = Null THEN "models" ELSE "detect"
    /\ UNCHANGED <<loadPc, startPc, capPc, before>>

\* The loadModels call awaited by analyzeStaticImage settles; the detection
\* call that follows throws at once when there is still no model.
UploadModelsDone ==
    /\ upPc = "models"
    /\ \E ok \in BOOLEAN :
          LET loaded == IF ok
                        THEN setLoading([Cur EXCEPT !.model = "loaded",
                                                    !.ui.startDisabled = FALSE], FALSE)
                        ELSE setLoading([alert(Cur, <<"Erro ao carregar IA", "load">>) EXCEPT
                                            !.ui.statusText = "Erro no carregamento"], FALSE)
          IN IF loaded.model = Null
             THEN /\ Run(handleFileUploadCatch(loaded, "TypeError"), "uploadDetectThrow")
                  /\ upPc' = "idle"
                  /\ before' = [before EXCEPT !.up = InitAnalysisState]
             ELSE /\ Run(loaded, "other")
                  /\ upPc' = "detect"
                  /\ UNCHANGED before
    /\ UNCHANGED <<loadPc, startPc, capPc>>

\* The detection call of analyzeStaticImage settles.
UploadDetectionDone ==
    /\ upPc = "detect"
    /\ \E predictions \in DetectResults :
          \/ /\ predictions.k = "ok"
             /\ Len(predictions.faces) > 0
             /\ \E rnd \in RandDraws :
                   Run(analyzeStaticImageFace(Cur, predictions.faces[1], rnd), "uploadDone")
          \/ /\ predictions.k = "ok"
             /\ Len(predictions.faces) = 0
             /\ Run(analyzeStaticImageNoFace(Cur), "uploadNoFace")
          \/ /\ predictions.k = "throw"
             /\ Run(handleFileUploadCatch(Cur, "detect"), "uploadDetectThrow")
    /\ upPc' = "idle"
    /\ before' = [before EXCEPT !.up = InitAnalysisState]
    /\ UNCHANGED <<loadPc, startPc, capPc>>

Init ==
    /\ InitSnap
    /\ engineIn = [mesh |-> NoMesh, frame |-> BlankFrame]
    /\ engineOut = [A |-> EngineIdle(InitScores), B |-> EngineIdle(InitScores)]
    /\ InitMetricIdle
    /\ InitServerIdle
    /\ InitScoreIdle

Next ==
    \/ LoadModelsOk
    \/ LoadModelsFail
    \/ StartClick
    \/ CameraGranted
    \/ CameraDenied
    \/ LoadedMetadata
    \/ LoopDetectionDone
    \/ AnimationFrame
    \/ CaptureClick
    \/ CaptureFetchFail
    \/ CaptureFetchOk
    \/ CaptureDetectionDone
    \/ RetryClick
    \/ ToggleClick
    \/ UploadChange
    \/ UploadImageFail
    \/ UploadImageOk
    \/ UploadModelsDone
    \/ UploadDetectionDone

Spec == Init /\ [][Next]_vars

(* ============ src/unnamed/part_000: the pixel based Metric Engine ======= *)
\* CONFIG of part_000
CONFIG_videoWidth == 640
CONFIG_videoHeight == 480

\* The minimum / maximum of a landmark coordinate over the indices, folded
\* from +Infinity / -Infinity: the first landmark replaces the start value.
FoldMinInf(landmarks, indices, c) ==
    FoldMin(landmarks, Tail(indices), c, landmarks[Head(indices)][c])

FoldMaxInf(landmarks, indices, c) ==
    FoldMax(landmarks, Tail(indices), c, landmarks[Head(indices)][c])

\* getRegionPixels of part_000 (indices is never empty there).
getRegionPixels(ctx, landmarks, indices) ==
    LET minX == Max(0, FoldMinInf(landmarks, indices, 1))
        minY == Max(0, FoldMinInf(landmarks, indices, 2))
        maxX == Min(CONFIG_videoWidth, FoldMaxInf(landmarks, indices, 1))
        maxY == Min(CONFIG_videoHeight, FoldMaxInf(landmarks, indices, 2))
        w == maxX - minX
        h == maxY - minY
    IN IF w <= 0 \/ h <= 0 THEN NullData ELSE getImageData(ctx, minX, minY, w, h)

\* Fractions are <<numerator, denominator>> with a positive denominator.
\* Three times the brightness (data[i] + data[i+1] + data[i+2]) / 3 of a pixel.
Brightness3(px) == px[1] + px[2] + px[3]

RECURSIVE SumBrightness3(_)
SumBrightness3(data) ==
    IF data = <<>> THEN 0 ELSE Brightness3(Head(data)) + SumBrightness3(Tail(data))

RECURSIVE SumSquares3(_)
SumSquares3(data) ==
    IF data = <<>> THEN 0
    ELSE Brightness3(Head(data)) * Brightness3(Head(data)) + SumSquares3(Tail(data))

\* The number of pixels whose brightness exceeds 190.
RECURSIVE ShinyPixels(_)
ShinyPixels(data) ==
    IF data = <<>> THEN 0
    ELSE (IF Brightness3(Head(data)) > 3 * 190 THEN 1 ELSE 0) + ShinyPixels(Tail(data))

\* calculateTextureMetric returns a standard deviation; the model carries its
\* square, the variance sqSum/count - mean*mean, as a fraction.
calculateTextureMetric(imageData) ==
    IF imageData = NullData THEN <<0, 1>>
    ELSE LET count == Len(imageData.data)
             sum == SumBrightness3(imageData.data)
             sqSum == SumSquares3(imageData.data)
         IN <<count * sqSum - sum * sum, 9 * count * count>>

calculateOilinessMetric(imageData) ==
    IF imageData = NullData THEN <<0, 1>>
    ELSE <<ShinyPixels(imageData.data) * 100 * 3, Len(imageData.data)>>

\* getMean of calculateBeardMetric
getMean(img) == <<SumBrightness3(img.data), 3 * Len(img.data)>>

calculateBeardMetric(chinData, cheekData) ==
    IF chinData = NullData \/ cheekData = NullData THEN <<0, 1>>
    ELSE LET chinMean == getMean(chinData)
             cheekMean == getMean(cheekData)
             diff == <<cheekMean[1] * chinMean[2] - chinMean[1] * cheekMean[2],
                       cheekMean[2] * chinMean[2]>>
         IN IF diff[1] > 0
            THEN (IF diff[1] * 2 > 100 * diff[2] THEN <<100, 1>> ELSE <<diff[1] * 2, diff[2]>>)
            ELSE <<0, 1>>

\* Math.round of a non-negative fraction.
Round(q) == (2 * q[1] + q[2]) \div (2 * q[2])

\* Math.round(Math.sqrt(v) * 2) for a variance v of 8-bit brightness values.
RoundTwiceSqrt(v) ==
    CHOOSE k \in 0..256 :
        /\ (2 * k - 1) * (2 * k - 1) * v[2] <= 16 * v[1] \/ k = 0
        /\ 16 * v[1] < (2 * k + 1) * (2 * k + 1) * v[2]

\* Math.sqrt(Math.pow(p1[0]-p2[0], 2) + Math.pow(p1[1]-p2[1], 2))
euclideanDist(p1, p2) ==
    Sqrt((p1[1] - p2[1]) * (p1[1] - p2[1]) + (p1[2] - p2[2]) * (p1[2] - p2[2]))

\* Math.round(((symCheek + symEye) / 2) * 100); NaN when a pair is 0/0.
SymmetryOfPairs(dCheekL, dCheekR, dEyeL, dEyeR) ==
    LET a == Min(dCheekL, dCheekR)
        b == Max(dCheekL, dCheekR)
        c == Min(dEyeL, dEyeR)
        d == Max(dEyeL, dEyeR)
    IN IF b = 0 \/ d = 0 THEN NaN
       ELSE (100 * (a * d + c * b) + b * d) \div (2 * b * d)

\* analysisState.texture and analysisState.oiliness as analyzeFaceFeatures of
\* part_000 computes them from a region (part_000:194-199).
TextureScore(cheekData) == Min(100, RoundTwiceSqrt(calculateTextureMetric(cheekData)))

OilinessScore(foreheadData) == Min(100, Round(calculateOilinessMetric(foreheadData)))

\* analyzeFaceFeatures of part_000: the four scores it writes, and what the
\* beard metric returned.
analyzeFaceFeatures(face, ctxSource) ==
    LET landmarks == face.scaledMesh
        nose == landmarks[NOSE]
        leftCheek == landmarks[LEFT_CHEEK]
        rightCheek == landmarks[RIGHT_CHEEK]
        leftEye == landmarks[LEFT_EYE]
        rightEye == landmarks[RIGHT_EYE]
        cheekData == getRegionPixels(ctxSource, landmarks, ROI_leftCheek)
        foreheadData == getRegionPixels(ctxSource, landmarks, ROI_foreheadPoly)
        chinData == getRegionPixels(ctxSource, landmarks, JawlineStrip)
        beardScore == calculateBeardMetric(chinData, cheekData)
    IN [symmetry |-> SymmetryOfPairs(euclideanDist(nose, leftCheek),
                                     euclideanDist(nose, rightCheek),
                                     euclideanDist(nose, leftEye),
                                     euclideanDist(nose, rightEye)),
        texture |-> TextureScore(cheekData),
        oiliness |-> OilinessScore(foreheadData),
        beardDensity |-> Min(100, Round(beardScore)),
        beardScore |-> beardScore,
        chinData |-> chinData,
        cheekData |-> cheekData,
        foreheadData |-> foreheadData]

\* drawHeatmap of part_000: the blobs it draws, in drawing order, each with
\* the region it is centred on and the opacity of its colour (a fraction);
\* state is analysisState.
drawHeatmap(face, state) ==
    (IF state.oiliness > 30
     THEN <<[region |-> "forehead", alpha |-> <<state.oiliness, 150>>]>>
     ELSE <<>>)
    \o (IF state.texture > 15
        THEN <<[region |-> "leftCheek", alpha |-> <<state.texture, 150>>],
               [region |-> "rightCheek", alpha |-> <<state.texture, 150>>]>>
        ELSE <<>>)
    \o (IF state.beardDensity > 20
        THEN <<[region |-> "chin", alpha |-> <<state.beardDensity, 150>>]>>
        ELSE <<>>)

\* drawHeatmap of script.js: a red blob on each of the cheek landmarks 234
\* and 454, drawn with globalAlpha 0.4.
drawHeatmapBlobsSnap(face) ==
    <<[region |-> "leftCheek", alpha |-> <<4, 10>>],
      [region |-> "rightCheek", alpha |-> <<4, 10>>]>>

(* ----------------- the Metric Engine run on its own -------------------- *)
\* Paired distances of the faces the engine is run on.
CheekDist == {20, 100, 101, 200, 201}
EyeDist == {20, 25}

EngineMeshes ==
    {MkMesh(dl, dr, el, er, boxes) :
        dl \in CheekDist, dr \in CheekDist, el \in EyeDist, er \in EyeDist,
        boxes \in {BoxesPlain, BoxesNoCheek, BoxesWide, BoxesOutside}}

EngineFrames == {VideoFrame, UploadFrame}

\* The Math.random() draws of one analyzeFaceFeatures call of script.js.
EngineDraws == {<<0, 0, 0>>, <<999, 500, 999>>, <<500, 999, 0>>}

\* Scores left in analysisState by an earlier analysis.
PriorScores ==
    {InitScores, [symmetry |-> 100, texture |-> 77, oiliness |-> 3, beardDensity |-> 40]}

Slots == {"A", "B"}

\* One face and one frame; invocation B may start from other prior scores.
InitEngine ==
    /\ InitSnap
    /\ \E m \in EngineMeshes, f \in EngineFrames :
          engineIn = [mesh |-> m, frame |-> f]
    /\ \E prior \in PriorScores :
          engineOut = [A |-> EngineIdle(InitScores), B |-> EngineIdle(prior)]
    /\ InitMetricIdle
    /\ InitServerIdle
    /\ InitScoreIdle

\* analyzeFaceFeatures of part_000 on a face of the estimateFaces API it
\* uses (scaledMesh), then drawHeatmap as detectFace calls it.
EngineLive ==
    /\ \E slot \in Slots :
          \E r \in {analyzeFaceFeatures([scaledMesh |-> engineIn.mesh, keypoints |-> NoMesh],
                                       engineIn.frame)} :
             engineOut' = [engineOut EXCEPT ![slot] =
                 [by |-> "live",
                  scores |-> [symmetry |-> r.symmetry, texture |-> r.texture,
                              oiliness |-> r.oiliness, beardDensity |-> r.beardDensity],
                  beardScore |-> r.beardScore,
                  chinData |-> r.chinData, cheekData |-> r.cheekData,
                  foreheadData |-> r.foreheadData,
                  blobs |-> drawHeatmap([scaledMesh |-> engineIn.mesh, keypoints |-> NoMesh], r)]]
    /\ UNCHANGED <<engineIn, pageVars, metricVars, serverVars, scoreVars>>

\* analyzeFaceFeatures of script.js on a face of the createDetector API
\* (keypoints), then drawHeatmap as captureSnapshot calls it.
EngineSnap ==
    /\ \E slot \in Slots, rnd \in EngineDraws :
          \E r \in {analyzeFaceFeaturesSnap([keypoints |-> engineIn.mesh, scaledMesh |-> NoMesh],
                                           engineIn.frame, rnd)} :
             engineOut' = [engineOut EXCEPT ![slot] =
                 [by |-> "snap",
                  scores |-> [symmetry |-> r.symmetry, texture |-> r.texture,
                              oiliness |-> r.oiliness, beardDensity |-> r.beardDensity],
                  beardScore |-> <<r.beardDensity, 1>>,
                  chinData |-> r.chinData, cheekData |-> r.cheekData,
                  foreheadData |-> r.foreheadData,
                  blobs |-> drawHeatmapBlobsSnap(r.face)]]
    /\ UNCHANGED <<engineIn, pageVars, metricVars, serverVars, scoreVars>>

NextEngine ==
    \/ EngineLive
    \/ EngineSnap

SpecEngine == InitEngine /\ [][NextEngine]_vars

(* ------------- the texture and oiliness metrics on their own ----------- *)
Gray(v) == <<v, v, v, 255>>

\* The ImageData of a one-row block of pixels.
MkBlock(pixels) == [x |-> 0, y |-> 0, w |-> Len(pixels), h |-> 1, data |-> pixels]

\* Blocks: uniform; slightly uneven; black and white; one shiny pixel in
\* four and in eight; brightness exactly 190; coloured pixels just above
\* 190; and no region at all.
Blocks ==
    { MkBlock(<<Gray(128), Gray(128), Gray(128), Gray(128)>>),
      MkBlock(<<Gray(100), Gray(104), Gray(100), Gray(104)>>),
      MkBlock(<<Gray(0), Gray(255), Gray(0), Gray(255)>>),
      MkBlock(<<Gray(191), Gray(50), Gray(50), Gray(50)>>),
      MkBlock(<<Gray(200), Gray(90), Gray(90), Gray(90), Gray(90), Gray(90), Gray(90), Gray(90)>>),
      MkBlock(<<Gray(190), Gray(190)>>),
      MkBlock(<<<<200, 190, 181, 255>>, <<200, 190, 180, 255>>, <<10, 20, 30, 255>>>>),
      NullData }

InitMetric ==
    /\ InitSnap
    /\ engineIn = [mesh |-> NoMesh, frame |-> BlankFrame]
    /\ engineOut = [A |-> EngineIdle(InitScores), B |-> EngineIdle(InitScores)]
    /\ \E b1 \in Blocks, b2 \in Blocks : metricIn = <<b1, b2>>
    /\ metricOut = <<MetricIdle, MetricIdle>>
    /\ InitServerIdle
    /\ InitScoreIdle

\* The scores of part_000 for one of the two blocks.
MetricLive ==
    /\ \E i \in {1, 2} :
          metricOut' = [metricOut EXCEPT ![i] =
              [by |-> "live", texture |-> TextureScore(metricIn[i]),
               oiliness |-> OilinessScore(metricIn[i])]]
    /\ UNCHANGED <<metricIn, pageVars, engineVars, serverVars, scoreVars>>

\* The scores of script.js for one of the two blocks.
MetricSnap ==
    /\ \E i \in {1, 2}, rnd \in EngineDraws :
          metricOut' = [metricOut EXCEPT ![i] =
              [by |-> "snap", texture |-> TextureScoreSnap(metricIn[i], rnd[1]),
               oiliness |-> OilinessScoreSnap(metricIn[i], rnd[2])]]
    /\ UNCHANGED <<metricIn, pageVars, engineVars, serverVars, scoreVars>>

NextMetric ==
    \/ MetricLive
    \/ MetricSnap

SpecMetric == InitMetric /\ [][NextMetric]_vars

(* ============ src/unnamed/part_001: the analysis endpoint =============== *)
\* The bodies of the requests: not multipart, or a multipart form with the
\* field names of its file parts.
Forms ==
    { [multipart |-> FALSE, files |-> <<>>],
      [multipart |-> TRUE, files |-> <<>>],
      [multipart |-> TRUE, files |-> <<"foto">>],
      [multipart |-> TRUE, files |-> <<"imagem">>] }

\* The characters of a reply of the generative model, grouped in tokens.
Sym(c) == [t |-> c]
Str(s) == [t |-> "str", v |-> s]
Num(n) == [t |-> "num", v |-> n]
Word(s) == [t |-> "word", v |-> s]

\* What generateContent settles with: a rejection, a response whose text()
\* throws, or a response with a text.  kind tells what the text was written
\* to be: an object ("json", alone or inside other text), no block of
\* braces ("none"), or a block that is not JSON ("bad").
Replies ==
    { [k |-> "rejected"],
      [k |-> "blocked"],
      [k |-> "text", kind |-> "json",
       text |-> <<Sym("{"), Str("nota"), Sym(":"), Num(8), Sym("}")>>],
      [k |-> "text", kind |-> "json",
       text |-> <<Word("Resultado"), Sym("{"), Str("simetria"), Sym(":"), Sym("{"), Str("nota"),
                  Sym(":"), Str("8/10"), Sym("}"), Sym(","), Str("formato_rosto"), Sym(":"),
                  Str("Oval"), Sym("}"), Word("fim")>>],
      [k |-> "text", kind |-> "json", text |-> <<Sym("{"), Sym("}")>>],
      [k |-> "text", kind |-> "none", text |-> <<Word("Desculpe"), Word("nao"), Word("posso")>>],
      [k |-> "text", kind |-> "none", text |-> <<Sym("}"), Word("e"), Sym("{")>>],
      [k |-> "text", kind |-> "bad",
       text |-> <<Sym("{"), Word("nota"), Sym(":"), Num(8), Sym("}")>>],
      [k |-> "text", kind |-> "bad",
       text |-> <<Sym("{"), Str("a"), Sym(":"), Num(1), Sym("}"), Word("ou"),
                  Sym("{"), Str("b"), Sym(":"), Num(2), Sym("}")>>] }

\* upload.single('foto') of multer (part_001:16, 32): a body that is not
\* multipart is passed on untouched; a file part under another field name,
\* or a second file, is an error handed to next(); otherwise req.file is the
\* file of the field, if any.
uploadSingle(form, fieldname) ==
    IF ~form.multipart THEN [k |-> "next", file |-> Undefined]
    ELSE IF \E i \in 1..Len(form.files) : form.files[i] # fieldname \/ i > 1
    THEN [k |-> "error", file |-> Undefined]
    ELSE [k |-> "next", file |-> IF form.files = <<>> THEN Undefined ELSE "image"]

\* text.match(/\{[\s\S]*\}/) (part_001:77): from the first opening brace to
\* the last closing brace after it; <<>> stands for no match.
match(text) ==
    LET opens == {i \in 1..Len(text) : text[i] = Sym("{")}
        first == CHOOSE i \in opens : \A j \in opens : i <= j
        closes == {i \in 1..Len(text) : text[i] = Sym("}") /\ i > first}
        last == CHOOSE i \in closes : \A j \in closes : i >= j
    IN IF opens = {} THEN <<>>
       ELSE IF closes = {} THEN <<>>
       ELSE SubSeq(text, first, last)

SyntaxError == [ok |-> FALSE, value |-> [t |-> "none"], rest |-> <<>>]

\* JSON.parse (part_001:83) on the values of the model: numbers, strings and
\* objects.  ParseValue reads one value from the front of the tokens.
RECURSIVE ParseValue(_), ParseMembers(_, _)
ParseValue(toks) ==
    IF toks = <<>> THEN SyntaxError
    ELSE IF Head(toks).t \in {"num", "str"}
    THEN [ok |-> TRUE, value |-> Head(toks), rest |-> Tail(toks)]
    ELSE IF Head(toks).t # "{" THEN SyntaxError
    ELSE IF Len(toks) >= 2 /\ toks[2].t = "}"
    THEN [ok |-> TRUE, value |-> [t |-> "obj", members |-> <<>>], rest |-> Tail(Tail(toks))]
    ELSE ParseMembers(Tail(toks), <<>>)

ParseMembers(toks, acc) ==
    IF Len(toks) < 3 THEN SyntaxError
    ELSE IF toks[1].t # "str" \/ toks[2].t # ":" THEN SyntaxError
    ELSE LET v == ParseValue(SubSeq(toks, 3, Len(toks)))
             members == Append(acc, <<toks[1].v, v.value>>)
         IN IF ~v.ok \/ v.rest = <<>> THEN SyntaxError
            ELSE IF Head(v.rest).t = "}"
            THEN [ok |-> TRUE, value |-> [t |-> "obj", members |-> members],
                  rest |-> Tail(v.rest)]
            ELSE IF Head(v.rest).t = "," THEN ParseMembers(Tail(v.rest), members)
            ELSE SyntaxError

JSONparse(toks) ==
    LET r == ParseValue(toks)
    IN IF r.ok /\ r.rest = <<>> THEN r ELSE SyntaxError

\* res.status(code).json(body) and res.json(body)
send(r, code, body) == [r EXCEPT !.sent = Append(@, [status |-> code, body |-> body]),
                                 !.pc = "done"]

\* The catch block of the route (part_001:88-91).
routeCatch(r) ==
    send(r, 500, [error |-> "Erro ao processar imagem com IA. Verifique os logs do servidor."])

\* The error handler of express for an error handed to next(): status 500
\* and a page of text.
defaultErrorHandler(r) == send(r, 500, [html |-> "MulterError: Unexpected field"])

\* The route from its start to the call of generateContent (part_001:33-70).
routeBegin(r, file) ==
    IF file = Undefined
    THEN send(r, 400, [error |-> "Nenhuma imagem enviada."])
    ELSE [r EXCEPT !.calls = @ + 1, !.pc = "generate"]

\* The route after generateContent resolved (part_001:71-86).
routeReply(r) ==
    IF r.reply.k = "blocked" THEN routeCatch(r)
    ELSE LET jsonMatch == match(r.reply.text)
             data == JSONparse(jsonMatch)
         IN IF jsonMatch = <<>> THEN routeCatch(r)
            ELSE IF ~data.ok THEN routeCatch(r)
            ELSE send(r, 200, data.value)

\* A POST to /api/analisar-rosto arrives.
Post ==
    /\ \E c \in Connections, form \in Forms :
          /\ requests[c].pc = "idle"
          /\ requests' = [requests EXCEPT ![c].pc = "multer", ![c].form = form]
    /\ UNCHANGED <<pageVars, engineVars, metricVars, scoreVars>>

\* multer has read the body: the route runs up to its first await, or the
\* error goes to the error handler of express.
MulterDone ==
    /\ \E c \in Connections :
          /\ requests[c].pc = "multer"
          /\ \E m \in {uploadSingle(requests[c].form, "foto")} :
                requests' = [requests EXCEPT ![c] =
                    IF m.k = "error" THEN defaultErrorHandler(@) ELSE routeBegin(@, m.file)]
    /\ UNCHANGED <<pageVars, engineVars, metricVars, scoreVars>>

\* generateContent rejects (part_001:70, 88-91).
GenerateFail ==
    /\ \E c \in Connections :
          /\ requests[c].pc = "generate"
          /\ requests' = [requests EXCEPT ![c] = routeCatch([@ EXCEPT !.reply = [k |-> "rejected"]])]
    /\ UNCHANGED <<pageVars, engineVars, metricVars, scoreVars>>

\* generateContent resolves; the route awaits result.response (part_001:70-71).
GenerateOk ==
    /\ \E c \in Connections, reply \in Replies \ {[k |-> "rejected"]} :
          /\ requests[c].pc = "generate"
          /\ requests' = [requests EXCEPT ![c].pc = "response", ![c].reply = reply]
    /\ UNCHANGED <<pageVars, engineVars, metricVars, scoreVars>>

\* The rest of the route (part_001:72-91).
ResponseDone ==
    /\ \E c \in Connections :
          /\ requests[c].pc = "response"
          /\ requests' = [requests EXCEPT ![c] = routeReply(@)]
    /\ UNCHANGED <<pageVars, engineVars, metricVars, scoreVars>>

NextServer ==
    \/ Post
    \/ MulterDone
    \/ GenerateFail
    \/ GenerateOk
    \/ ResponseDone

SpecServer == Init /\ [][NextServer]_vars

(* ============ script.js: parseScore on the notes of a response ========= *)
\* The notes run from 0 to NoteScale (part_001:52, 56).
NoteScale == 10

\* A number as JSON and the prompt's examples spell it.
Decimal(n) ==
    IF n < 10 THEN <<Digits[n + 1]>> ELSE <<Digits[(n \div 10) + 1], Digits[(n % 10) + 1]>>

\* The notes parseScore is driven with, each with what it says: a value on
\* the scale (as a number, as a string, as a string "n/10"), nothing, or
\* text that is not a number.
ScoreNotes ==
    {[note |-> [k |-> "num", v |-> n], kind |-> "number", value |-> n] : n \in 0..NoteScale}
      \cup {[note |-> [k |-> "str", v |-> Decimal(n)], kind |-> "number", value |-> n] :
               n \in 0..NoteScale}
      \cup {[note |-> [k |-> "str", v |-> Decimal(n) \o <<"/", "1", "0">>],
              kind |-> "number", value |-> n] : n \in 0..NoteScale}
      \cup {[note |-> [k |-> "undefined"], kind |-> "missing", value |-> 0],
             [note |-> [k |-> "str", v |-> <<>>], kind |-> "text", value |-> 0],
             [note |-> [k |-> "str", v |-> <<"a", "l", "t", "a">>], kind |-> "text", value |-> 0],
             [note |-> [k |-> "str", v |-> <<"n", "/", "a">>], kind |-> "text", value |-> 0]}

\* data.simetria?.nota and data.qualidade_pele?.nota of a response.
InitScore ==
    /\ InitSnap
    /\ engineIn = [mesh |-> NoMesh, frame |-> BlankFrame]
    /\ engineOut = [A |-> EngineIdle(InitScores), B |-> EngineIdle(InitScores)]
    /\ InitMetricIdle
    /\ InitServerIdle
    /\ \E a \in ScoreNotes, b \in ScoreNotes : noteIn = <<a, b>>
    /\ noteOut = <<NoScore, NoScore>>

\* parseScore on one of the two notes (script.js:355-356).
ParseNote ==
    /\ \E i \in {1, 2} :
          /\ noteOut[i] = NoScore
          /\ noteOut' = [noteOut EXCEPT ![i] = [k |-> "score", v |-> parseScore(noteIn[i].note)]]
    /\ UNCHANGED <<noteIn, pageVars, engineVars, metricVars, serverVars>>

SpecScore == InitScore /\ [][ParseNote]_vars

(* ============================ claims ==================================== *)
Scores == {"symmetry", "texture", "oiliness", "beardDensity"}

\* Animation-frame callbacks queued.
Queued == rafStale + (IF animationId = "pending" THEN 1 ELSE 0)

\* The acquisition state resetExperience establishes.
AcquisitionState ==
    /\ isAnalysing
    /\ ~ui.captureHidden
    /\ ui.retryHidden
    /\ ui.toggleHidden

\* C1: at most one acquisition/detection/scoring sequence is in progress: a
\* preview-loop iteration never issues its detection call while a detection
\* call of an earlier iteration or of an analysis pass is still outstanding.
C1_SingleSequence ==
    [][loopDet' > loopDet =>
          /\ loopDet = 0
          /\ capPc' \notin {"detect", "detectNoFrame"}
          /\ upPc' # "detect"]_vars

\* C2: whenever detection returns no face during an analysis pass (capture or
\* upload) the failure is surfaced and the page is back in the acquisition
\* state with the preview loop running.
C2_NoFaceRecovers ==
    lastStep \in {"captureNoFace", "uploadNoFace"} =>
        /\ ui.alert # NoAlert
        /\ AcquisitionState
        /\ loopDet + Queued >= 1

\* C3: whenever the remote classifier call of captureSnapshot fails, the
\* failure is alerted, the loading overlay is hidden, the page is reset to the
\* acquisition state, and the call is not tried again.
C3_RemoteFailureResets ==
    lastStep = "captureFetchFail" =>
        /\ ui.alert[1] = "Erro na analise (API)"
        /\ ui.alert[2] \in FetchFailures
        /\ ~ui.loading
        /\ AcquisitionState
        /\ capPc = "idle"

C3_Witness == lastStep = "captureFetchFail" /\ ui.alert[2] = "status" /\ loopDet > 0

\* C4: a pass that fails at any step (remote call error, detection throwing,
\* no face detected) leaves analysisState as it was when the pass began.
C4_AllOrNothing ==
    [][/\ lastStep' \in {"captureFetchFail", "captureDetectThrow", "captureNoFace"}
          => analysisState' = before.cap
       /\ lastStep' \in {"uploadImageFail", "uploadDetectThrow", "uploadNoFace"}
          => analysisState' = before.up]_vars

\* C5: in every reachable state each of the four scores of analysisState is an
\* integer in 0..100.
C5_ScoresInRange == \A f \in Scores : analysisState[f] \in 0..100

\* C6: after any completed pass every displayed field of analysisState (the
\* four scores, and the insight when updateUI shows it) holds a value written
\* by a pass in progress, never the initial value or a value written by a
\* pass that had finished before.
C6_Wholesale ==
    lastStep \in {"captureDone", "uploadDone"} =>
        \A f \in Fields :
            (f \in Scores \/ Truthy(analysisState[f])) => origin[f] \in {"cap", "up"}

\* C7: for a fixed frame and a fixed landmark set, two invocations of the
\* analyzeFaceFeatures of one revision, started from any two prior states,
\* produce the same four scores.
C7_NoHiddenRandomness ==
    (engineOut.A.by # "none" /\ engineOut.A.by = engineOut.B.by) =>
        engineOut.A.scores = engineOut.B.scores

\* C8: cancellation is cooperative: a preview-loop iteration that begins while
\* isAnalysing is false issues no detection, draws nothing and queues no
\* callback; and captureSnapshot, which clears the flag, leaves the detection
\* calls in flight outstanding.
C8_Cooperative ==
    [][/\ (lastStep' = "loopEnter" /\ ~isAnalysing) =>
              /\ ~isAnalysing'
              /\ loopDet' = loopDet
              /\ canvas' = canvas
              /\ Queued' = Queued - 1
       /\ (capPc = "idle" /\ capPc' = "fetch") =>
              /\ ~isAnalysing'
              /\ loopDet' = loopDet]_vars

C8_Witness == lastStep = "loopEnter" /\ ~isAnalysing /\ capPc = "detect" /\ loopDet > 0

\* The distance of landmark i from the nose in the face the engine is run on.
NoseDist(i) == hypot(engineIn.mesh[NOSE], engineIn.mesh[i])

\* The pairs of landmarks whose distances a revision compares.
PairsUsed(by) ==
    IF by = "live"
    THEN {<<LEFT_CHEEK, RIGHT_CHEEK>>, <<LEFT_EYE, RIGHT_EYE>>}
    ELSE {<<LEFT_CHEEK, RIGHT_CHEEK>>}

AllPairsEqual(by) == \A p \in PairsUsed(by) : NoseDist(p[1]) = NoseDist(p[2])

\* The mean over the pairs used of min/max of the paired distances is at
\* least 0.995.
MeanRatioRoundsToOne(by) ==
    LET a == Min(NoseDist(LEFT_CHEEK), NoseDist(RIGHT_CHEEK))
        b == Max(NoseDist(LEFT_CHEEK), NoseDist(RIGHT_CHEEK))
        c == Min(NoseDist(LEFT_EYE), NoseDist(RIGHT_EYE))
        d == Max(NoseDist(LEFT_EYE), NoseDist(RIGHT_EYE))
    IN IF by = "live"
       THEN 1000 * (a * d + c * b) >= 995 * 2 * b * d
       ELSE 1000 * a >= 995 * b

\* C9 as stated: the symmetry score lies in 0..100 and is 100 if and only if
\* the paired distances are exactly equal for every pair used.
C9_SymmetryIffEqual ==
    \A slot \in Slots :
        engineOut[slot].by # "none" =>
            /\ engineOut[slot].scores.symmetry \in 0..100
            /\ engineOut[slot].scores.symmetry = 100 <=> AllPairsEqual(engineOut[slot].by)

\* C9 amended: the symmetry score lies in 0..100, is 100 whenever the paired
\* distances are equal for every pair used, and is 100 only when the mean
\* min/max ratio of the pairs is at least 0.995.
C9_SymmetryRounded ==
    \A slot \in Slots :
        engineOut[slot].by # "none" =>
            /\ engineOut[slot].scores.symmetry \in 0..100
            /\ AllPairsEqual(engineOut[slot].by) => engineOut[slot].scores.symmetry = 100
            /\ engineOut[slot].scores.symmetry = 100 => MeanRatioRoundsToOne(engineOut[slot].by)

\* The example of C9 run through both revisions: nose (100,100), left
\* (80,100), right (120,100) gives 100.
C9_Witness ==
    /\ engineIn.mesh[LEFT_CHEEK] = <<80, 100>>
    /\ engineIn.mesh[RIGHT_CHEEK] = <<120, 100>>
    /\ engineOut.A.by = "snap" /\ engineOut.A.scores.symmetry = 100
    /\ engineOut.B.by = "live" /\ engineOut.B.scores.symmetry = 100

\* The sum of (r + g + b) over a block, and its number of pixels.
BlockSum(img) == SumBrightness3(img.data)
BlockSize(img) == Len(img.data)

\* The beard score C10 prescribes for two blocks, as a fraction.
PrescribedBeard(chin, cheek) ==
    LET num == BlockSum(cheek) * BlockSize(chin) - BlockSum(chin) * BlockSize(cheek)
        den == 3 * BlockSize(cheek) * BlockSize(chin)
    IN IF num <= 0 THEN <<0, 1>>
       ELSE IF 2 * num >= 100 * den THEN <<100, 1>>
       ELSE <<2 * num, den>>

\* C10: for all chin and cheek pixel blocks the beard score is 0 when the chin
\* mean brightness is at least the cheek mean brightness, and otherwise
\* min(100, 2 * (cheek mean - chin mean)).
C10_BeardFormula ==
    \A slot \in Slots :
        (/\ engineOut[slot].by # "none"
         /\ engineOut[slot].chinData # NullData
         /\ engineOut[slot].cheekData # NullData) =>
            LET want == PrescribedBeard(engineOut[slot].chinData, engineOut[slot].cheekData)
            IN engineOut[slot].beardScore[1] * want[2] = want[1] * engineOut[slot].beardScore[2]

\* The fraction of the pixels of a block whose brightness exceeds 190, and
\* the variance of its brightness, as fractions.
BrightFraction(img) ==
    <<Cardinality({k \in 1..Len(img.data) :
                      img.data[k][1] + img.data[k][2] + img.data[k][3] > 570}),
      Len(img.data)>>

BrightnessVariance(img) ==
    <<Len(img.data) * SumSquares3(img.data) - SumBrightness3(img.data) * SumBrightness3(img.data),
      9 * Len(img.data) * Len(img.data)>>

FracLeq(p, q) == p[1] * q[2] <= q[1] * p[2]

\* C11: of any two pixel blocks scored by one revision, the block with the
\* larger fraction of pixels brighter than 190 never gets the smaller
\* oiliness score, the block with the larger brightness variance never gets
\* the smaller texture score, and both scores lie in 0..100.
C11_Monotone ==
    \A i \in {1, 2}, j \in {1, 2} :
        (/\ metricOut[i].by # "none"
         /\ metricOut[i].by = metricOut[j].by
         /\ metricIn[i] # NullData
         /\ metricIn[j] # NullData) =>
            /\ metricOut[i].texture \in 0..100
            /\ metricOut[i].oiliness \in 0..100
            /\ FracLeq(BrightFraction(metricIn[i]), BrightFraction(metricIn[j]))
                  => metricOut[i].oiliness <= metricOut[j].oiliness
            /\ FracLeq(BrightnessVariance(metricIn[i]), BrightnessVariance(metricIn[j]))
                  => metricOut[i].texture <= metricOut[j].texture

\* The regions a revision samples: <<name of the region, landmark indices>>.
RegionsSampled(by) ==
    IF by = "live"
    THEN {<<"cheekData", ROI_leftCheek>>, <<"foreheadData", ROI_foreheadPoly>>,
          <<"chinData", JawlineStrip>>}
    ELSE {<<"cheekData", SnapCheekROI>>, <<"foreheadData", SnapForeheadROI>>,
          <<"chinData", SnapChinROI>>}

\* The bounding box <<minX, minY, maxX, maxY>> of the selected landmarks of
\* the face the engine is run on.
BoundingBox(indices) ==
    LET xs == {engineIn.mesh[i][1] : i \in Range(indices)}
        ys == {engineIn.mesh[i][2] : i \in Range(indices)}
    IN <<CHOOSE m \in xs : \A x \in xs : m <= x,
         CHOOSE m \in ys : \A y \in ys : m <= y,
         CHOOSE m \in xs : \A x \in xs : m >= x,
         CHOOSE m \in ys : \A y \in ys : m >= y>>

\* The box has no area, or no point of it lies inside the 640 x 480 buffer.
NoRegion(box) ==
    \/ box[1] = box[3] \/ box[2] = box[4]
    \/ box[3] <= 0 \/ box[4] <= 0
    \/ box[1] >= 640 \/ box[2] >= 480

\* C12: getRegionPixels returns null, having read no pixel, when the bounding
\* box of the selected landmarks has no area or lies outside the frame
\* buffer; otherwise the rectangle it reads is the box clamped to the buffer.
C12_RegionClamped ==
    \A slot \in Slots :
        engineOut[slot].by # "none" =>
            \A reg \in RegionsSampled(engineOut[slot].by) :
                LET box == BoundingBox(reg[2])
                    img == engineOut[slot][reg[1]]
                IN IF NoRegion(box)
                   THEN img = NullData
                   ELSE /\ img # NullData
                        /\ img.x = Max(0, box[1])
                        /\ img.y = Max(0, box[2])
                        /\ img.x + img.w = Min(640, box[3])
                        /\ img.y + img.h = Min(480, box[4])

\* The regions a score is computed from.
RegionsOf(score) ==
    CASE score = "texture" -> {"cheekData"}
      [] score = "oiliness" -> {"foreheadData"}
      [] score = "beardDensity" -> {"chinData", "cheekData"}
      [] OTHER -> {}

\* C13: when a region sampled for a score is empty, the score written is a
\* defined fallback: a number in 0..100 that is the same in every invocation
\* of the revision; analyzeFaceFeatures still writes four numbers.
C13_EmptyRegionFallback ==
    \A a \in Slots, b \in Slots :
        (engineOut[a].by # "none" /\ engineOut[a].by = engineOut[b].by) =>
            /\ \A f \in Scores : engineOut[a].scores[f] \in 0..100
            /\ \A f \in Scores :
                  (\E reg \in RegionsOf(f) : engineOut[a][reg] = NullData) =>
                      engineOut[a].scores[f] = engineOut[b].scores[f]

\* A heatmap has been drawn on the display canvas since it was last cleared
\* or repainted.
HeatmapOnCanvas == \E k \in 1..Len(canvas.overlays) : canvas.overlays[k] = "heatmap"

\* C14 (snapshot revision): while the toggle control is shown, the heatmap is
\* on the canvas if and only if isHeatmapVisible is true, and the control
\* reads "Ocultar Heatmap" exactly when the flag is true.
C14_ToggleSelectsOverlay ==
    ~ui.toggleHidden =>
        /\ HeatmapOnCanvas <=> isHeatmapVisible
        /\ ui.toggleLabel = "Ocultar Heatmap" <=> isHeatmapVisible

\* The blobs drawn for a region by the drawHeatmap call of a slot.
BlobsOn(slot, region) ==
    {k \in 1..Len(engineOut[slot].blobs) : engineOut[slot].blobs[k].region = region}

\* A region whose score is above the threshold carries one blob of opacity
\* score/150; a region whose score is not carries none.
BlobMatches(slot, region, score, threshold) ==
    IF score > threshold
    THEN /\ Cardinality(BlobsOn(slot, region)) = 1
         /\ \A k \in BlobsOn(slot, region) :
                engineOut[slot].blobs[k].alpha[1] * 150
                    = score * engineOut[slot].blobs[k].alpha[2]
    ELSE BlobsOn(slot, region) = {}

\* C15: drawHeatmap draws the forehead blob only for oiliness above 30, the
\* two cheek blobs only for texture above 15 and the chin blob only for beard
\* above 20, each with opacity score/150, and nothing else.
C15_HeatmapThresholds ==
    \A slot \in Slots :
        engineOut[slot].by # "none" =>
            /\ BlobMatches(slot, "forehead", engineOut[slot].scores.oiliness, 30)
            /\ BlobMatches(slot, "leftCheek", engineOut[slot].scores.texture, 15)
            /\ BlobMatches(slot, "rightCheek", engineOut[slot].scores.texture, 15)
            /\ BlobMatches(slot, "chin", engineOut[slot].scores.beardDensity, 20)
            /\ \A k \in 1..Len(engineOut[slot].blobs) :
                  engineOut[slot].blobs[k].region
                      \in {"forehead", "leftCheek", "rightCheek", "chin"}

CarriesFoto(c) ==
    /\ requests[c].form.multipart
    /\ \E i \in 1..Len(requests[c].form.files) : requests[c].form.files[i] = "foto"

\* The model call of the request on connection c failed, or its reply has
\* no JSON block, or a block that is not JSON.
ModelFailed(c) ==
    \/ requests[c].reply.k \in {"rejected", "blocked"}
    \/ requests[c].reply.k = "text" /\ requests[c].reply.kind \in {"none", "bad"}

ErrorPayload(body) == DOMAIN body = {"error"}

\* C17: a request is answered at most once, and exactly once when its
\* handling has ended: with 400, an error payload and no model call when it
\* carries no image in 'foto'; with 500 and an error payload when the model
\* call failed or its reply holds no block that parses; with 200 and the
\* parsed object otherwise.
C17_OneResponse ==
    \A c \in Connections :
        /\ Len(requests[c].sent) <= 1
        /\ requests[c].pc = "done" =>
              /\ Len(requests[c].sent) = 1
              /\ \E res \in {requests[c].sent[1]} :
                    IF ~CarriesFoto(c)
                    THEN res.status = 400 /\ ErrorPayload(res.body) /\ requests[c].calls = 0
                    ELSE IF ModelFailed(c)
                    THEN res.status = 500 /\ ErrorPayload(res.body)
                    ELSE res.status = 200 /\ res.body.t = "obj"

\* C18: when captureSnapshot ends with a face detected, the symmetry and the
\* texture updateUI shows are the scores parseScore derived from the notes of
\* the remote response; the local helper has not replaced them.
C18_RemoteScoresShown ==
    lastStep = "captureDone" =>
        /\ shown.symmetry = parseScore(remote.simetria)
        /\ shown.texture = parseScore(remote.qualidade_pele)

\* C19: parseScore maps a note that says a value from 0 to 10, as a number
\* or as a string like "8" or "8/10", to ten times the value, and a missing
\* or non-numeric note to 50.
C19_ParseScore ==
    \A i \in {1, 2} :
        noteOut[i] # NoScore =>
            noteOut[i].v = IF noteIn[i].kind = "number" THEN 10 * noteIn[i].value ELSE 50
====
